---- MODULE Spec2Model ----
(***************************************************************************)
(* Model of the "Bevel a Curve (Mesh)" node, nodes/modifier_make/          *)
(* bevel_curve.py: SvBevelCurveNode.process and the functions it calls.    *)
(*                                                                         *)
(* Numbers.  A curve parameter t = s/(n-1) is kept as its numerator s over *)
(* the denominator den = n-1 of the sweep (den = 1 when n <= 1), and every *)
(* sampled coordinate is kept multiplied by den, so that all arithmetic is *)
(* exact integer arithmetic.                                               *)
(*                                                                         *)
(* Coordinates.  The path's position and tangent at a station are kept as  *)
(* the parameter they are sampled at, and a station's matrix as its three  *)
(* factors; a spline keeps the metric it is built with.  The properties    *)
(* up_axis and tangent_precision only enter those coordinates and are left *)
(* out.                                                                    *)
(*                                                                         *)
(* Mesh.  mesh.verts is a sequence; a vertex is named by its 0-based index *)
(* in it (the index bmesh gives it).  A face is the sequence of its vertex *)
(* indices in the order given to faces.new.                                *)
(***************************************************************************)
EXTENDS Integers, Sequences, FiniteSets, TLC

\* Largest number of profile vertices, of steps, and of matched tuples.
MaxK == 4
MaxSteps == 5
MaxBatch == 2
\* split_by_vertices: the most input vertices, and the most input faces
MaxVerts == 4
MaxFaces == 2

VARIABLES
    cfg,        \* the node's properties (self.algorithm, self.is_cyclic, ...)
    inputs,     \* process: the matched tuples, zip(*inputs)
    idx,        \* process: 1-based position of the tuple being evaluated
    pc,         \* "config" | "process" | "bevel" | "level" | "collect" | "done" | "raised"
    error,      \* the exception that left process(), "" when none
    taper,      \* process: taper spline of the current tuple
    twist,      \* process: twist spline of the current tuple
    spline,     \* make_bevel: the path spline
    stations,   \* make_bevel: zip(spline_vertices, spline_tangents, taper_values, twist_values)
    bevel_edges,\* make_bevel: the local bevel_edges (after polygons_to_edges)
    st,         \* make_bevel: number of stations consumed by the for loop
    mesh,       \* make_bevel: the bmesh under construction
    first_level_vertices,
    prev_level_vertices,
    out,        \* process: out_vertices / out_edges / out_faces, one entry per tuple
    outputs,    \* the node's output sockets after sv_set
    args,       \* split_mesh_elements_node: its arguments
    spc,        \* "idle" | "call" | "faces" | "edges" | "done" | "raised"
    selected_verts, \* split_by_vertices: the mask, one flag per input vertex
    out_verts,
    old_v_indexes,
    out_faces,
    old_new_verts,  \* split_by_vertices: the dict, as its (key, value) items in order
    ret         \* what split_mesh_elements_node returned, or the exception raised

\* The variables of split_mesh_elements_node, and those of SvBevelCurveNode.
svars == << args, spc, selected_verts, out_verts, old_v_indexes, out_faces,
            old_new_verts, ret >>
bvars == << cfg, inputs, idx, pc, error, taper, twist, spline, stations,
            bevel_edges, st, mesh, first_level_vertices, prev_level_vertices,
            out, outputs >>
vars == << cfg, inputs, idx, pc, error, taper, twist, spline, stations,
           bevel_edges, st, mesh, first_level_vertices, prev_level_vertices,
           out, outputs, args, spc, selected_verts, out_verts, old_v_indexes,
           out_faces, old_new_verts, ret >>

----------------------------------------------------------------------------
\* Python values

\* None, and a list held by a variable that may be None.
None == [isNone |-> TRUE, items |-> << >>]
Some(l) == [isNone |-> FALSE, items |-> l]

\* seq[i] of a Python list: valid for -len <= i < len, negative i counts from the end.
InRange(l, i) == -Len(l) <= i /\ i < Len(l)
PyGet(l, i) == l[(IF i < 0 THEN i + Len(l) ELSE i) + 1]

\* list(reversed(l))
Reversed(l) == [x \in 1..Len(l) |-> l[Len(l) + 1 - x]]

Range(l) == { l[x] : x \in 1..Len(l) }
Abs(x) == IF x < 0 THEN -x ELSE x

\* Vector.length of a vector whose squared length is a perfect square.
VecLength(v) ==
    LET q == v[1] * v[1] + v[2] * v[2] + v[3] * v[3]
    IN  CHOOSE r \in 0..q : r * r = q

----------------------------------------------------------------------------
\* Node properties

Algorithms == {"householder", "track", "diff"}
Modes == {"SPL", "LIN"}
Axes == {"X", "Y", "Z"}
Metrics == {"MANHATTAN", "DISTANCE", "POINTS", "CHEBYSHEV"}
TaperMetrics == {"SAME", "AXIS"}

\* Property defaults.
DefaultCfg ==
    [ algorithm |-> "householder", orient_axis |-> "Z",
      bevel_mode |-> "SPL", taper_mode |-> "SPL", twist_mode |-> "LIN",
      is_cyclic |-> FALSE,
      flip_curve |-> FALSE, flip_taper |-> FALSE, flip_twist |-> FALSE,
      cap_start |-> FALSE, cap_end |-> FALSE, separate_scale |-> FALSE,
      metric |-> "DISTANCE", taper_metric |-> "AXIS",
      outputs_linked |-> TRUE ]

\* The enumerated properties that select a strategy, and the items each is
\* declared with.
EnumProperties == {"algorithm", "bevel_mode", "taper_mode", "twist_mode"}
Items(prop) == IF prop = "algorithm" THEN Algorithms ELSE Modes

\* An enumerated property that takes any token, as a plain attribute would.
set_enum_unchecked(c, prop, token) ==
    [ err |-> "", cfg |-> [c EXCEPT ![prop] = token] ]

\* node.<prop> = token, for a property declared with bpy.props.EnumProperty
\* (imported at line 14, declared at lines 41-75).  Blender stores the value of
\* such a property itself and takes one of the declared items only: any other
\* token raises TypeError at the assignment and the property keeps its value.
\* (A plain Python attribute in place of the property would take any token;
\* that is set_enum_unchecked, which is not what the node runs under.)
set_enum(c, prop, token) ==
    IF token \in Items(prop)
    THEN [ err |-> "", cfg |-> [c EXCEPT ![prop] = token] ]
    ELSE [ err |-> "TypeError", cfg |-> c ]

\* 'XYZ'.index(self.orient_axis)
orient_axis_idx == CASE cfg.orient_axis = "X" -> 0
                     [] cfg.orient_axis = "Y" -> 1
                     [] cfg.orient_axis = "Z" -> 2

----------------------------------------------------------------------------
\* Splines

\* build_spline: 'LIN' gives a LinearSpline, anything else a CubicSpline; the
\* metric argument left out ("None") is self.metric.
build_spline(path, mode, is_cyclic, metric) ==
    [ kind |-> IF mode = "LIN" THEN "LinearSpline" ELSE "CubicSpline",
      points |-> path, is_cyclic |-> is_cyclic, zden |-> 1,
      metric |-> IF metric = "None" THEN cfg.metric ELSE metric ]

\* make_unit(z) of make_taper_spline
make_unit(z) ==
    [c \in 1..3 |-> IF c = orient_axis_idx + 1 THEN z
                    ELSE IF c = ((orient_axis_idx + 1) % 3) + 1 THEN 1
                    ELSE 0]

\* The metric of the taper spline: the curve's, or the orientation axis.
taper_spline_metric ==
    IF cfg.taper_metric = "SAME" THEN cfg.metric ELSE cfg.orient_axis

make_taper_spline(vertices) ==
    IF Len(vertices) = 0
    THEN [ kind |-> "LinearSpline", points |-> << make_unit(0), make_unit(1) >>,
           is_cyclic |-> FALSE, zden |-> 1, metric |-> taper_spline_metric ]
    ELSE build_spline(vertices, cfg.taper_mode, FALSE, taper_spline_metric)

\* Twist data is a list of (t, twist) pairs or a bare list of angles, a bare
\* angle being kept as the 1-tuple <<twist>>.  Every t of one list is kept as
\* its numerator over the list's common denominator tden, and so is the third
\* coordinate of the control points made from it (field zden of the spline).
NoTwist == [tden |-> 1, items |-> << >>]

\* make_twist_spline; i / (n-1) raises ZeroDivisionError for a bare list of one angle.
make_twist_spline(data) ==
    IF Len(data.items) = 0
    THEN [ err |-> "",
           spline |-> [ kind |-> "LinearSpline",
                        points |-> << <<0, 0, 0>>, <<0, 0, 1>> >>,
                        is_cyclic |-> cfg.is_cyclic, zden |-> 1,
                        metric |-> cfg.metric ] ]
    ELSE IF Len(data.items[1]) = 2
    THEN [ err |-> "",
           spline |-> [ build_spline(
                          [x \in 1..Len(data.items) |->
                              << data.items[x][2], 0, data.items[x][1] >>],
                          cfg.twist_mode, cfg.is_cyclic, cfg.metric)
                        EXCEPT !.zden = data.tden ] ]
    ELSE LET n == Len(data.items)
         IN  IF n - 1 = 0
             THEN [ err |-> "ZeroDivisionError", spline |-> None ]
             ELSE [ err |-> "",
                    spline |-> [ build_spline(
                                   [x \in 1..n |-> << data.items[x][1], 0, x - 1 >>],
                                   cfg.twist_mode, cfg.is_cyclic, cfg.metric)
                                 EXCEPT !.zden = n - 1 ] ]

\* Spline.eval at t = tnum/den, times den: the control points used here are
\* evenly spaced on a line and, for a spline whose metric is an axis, advance
\* evenly along that axis, so that under every metric the knots are evenly
\* spaced and the linear and the cubic interpolation are the same affine map
\* of t.
SplineEval(s, tnum, den) ==
    LET a == s.points[1]
        b == s.points[Len(s.points)]
    IN  [c \in 1..3 |-> a[c] * den + (b[c] - a[c]) * tnum]

\* get_taper_scale, of a sampled taper point
get_taper_scale(vertex) ==
    IF cfg.separate_scale
    THEN << Abs(vertex[((orient_axis_idx + 1) % 3) + 1]),
            Abs(vertex[((orient_axis_idx - 1) % 3) + 1]) >>
    ELSE LET projection == [vertex EXCEPT ![orient_axis_idx + 1] = 0]
         IN  << VecLength(projection), VecLength(projection) >>

\* get_twist_value
get_twist_value(vertex) == vertex[1]

----------------------------------------------------------------------------
\* Stations

\* np.linspace(0.0, 1.0, num): the numerators of the num samples over Den(num);
\* a negative num raises ValueError.
Den(num) == IF num > 1 THEN num - 1 ELSE 1
linspace(num) ==
    IF num < 0 THEN [ err |-> "ValueError", ts |-> << >> ]
    ELSE [ err |-> "", ts |-> [x \in 1..num |-> x - 1] ]

\* t_values[:-1]
DropLast(l) == IF Len(l) = 0 THEN l ELSE SubSeq(l, 1, Len(l) - 1)

\* Fault of t_values: the last sample is dropped from every sweep.
t_values_always_dropped(ts) == DropLast(ts)

\* t_values of make_bevel: the duplicate final sample is dropped when cyclic.
t_values(ts) == IF cfg.is_cyclic THEN DropLast(ts) ELSE ts

\* 1.0 - t when the flag is set
Flip(flag, tnum, den) == IF flag THEN den - tnum ELSE tnum

\* A sampler that reverses all three parameter sequences on flip_curve alone.
Station_flip_curve_only(tnum, den) ==
    [ den |-> den,
      t_for_curve |-> Flip(cfg.flip_curve, tnum, den),
      t_for_taper |-> Flip(cfg.flip_curve, tnum, den),
      t_for_twist |-> Flip(cfg.flip_curve, tnum, den),
      taper_value |-> get_taper_scale(
                        SplineEval(taper, Flip(cfg.flip_curve, tnum, den), den)),
      twist_value |-> get_twist_value(
                        SplineEval(twist, Flip(cfg.flip_curve, tnum, den), den)) ]

\* One entry of zip(spline_vertices, spline_tangents, taper_values, twist_values).
\* The path's position and tangent are kept as the parameter they are sampled at.
Station(tnum, den) ==
    [ den |-> den,
      t_for_curve |-> Flip(cfg.flip_curve, tnum, den),
      t_for_taper |-> Flip(cfg.flip_taper, tnum, den),
      t_for_twist |-> Flip(cfg.flip_twist, tnum, den),
      taper_value |-> get_taper_scale(
                        SplineEval(taper, Flip(cfg.flip_taper, tnum, den), den)),
      twist_value |-> get_twist_value(
                        SplineEval(twist, Flip(cfg.flip_twist, tnum, den), den)) ]

----------------------------------------------------------------------------
\* Orientation frame

\* get_matrix: rot @ scale_matrix @ twist_matrix, kept as its three factors;
\* an algorithm outside the three known ones raises Exception.
get_matrix(tangent, twist_value, scale_x, scale_y) ==
    IF cfg.algorithm \in {"householder", "track", "diff"}
    THEN [ err |-> "",
           matrix |-> [ rot |-> << cfg.algorithm, tangent >>,
                        scale |-> << scale_x, scale_y >>,
                        twist |-> twist_value ] ]
    ELSE [ err |-> "Exception", matrix |-> << >> ]

----------------------------------------------------------------------------
\* The mesh buffer (bmesh)

EmptyMesh == [ verts |-> << >>, edges |-> << >>, faces |-> << >> ]

\* The boundary edges of a face in the order bmesh makes them: the edge
\* that closes the loop first, then the edges between consecutive vertices.
FaceEdges(vs) ==
    [x \in 1..Len(vs) |-> IF x = 1 THEN { vs[Len(vs)], vs[1] } ELSE { vs[x - 1], vs[x] }]

\* Two faces are the same loop: one is a rotation of the other or of the
\* other reversed.
SameLoop(a, b) ==
    /\ Len(a) = Len(b)
    /\ \E r \in 0..(Len(a) - 1) :
          \/ \A x \in 1..Len(a) : a[x] = b[((x - 1 + r) % Len(a)) + 1]
          \/ \A x \in 1..Len(a) : a[x] = Reversed(b)[((x - 1 + r) % Len(a)) + 1]

\* mesh.faces.new(vs): fewer than 3 vertices is a TypeError; a vertex used
\* twice, or a face already in the mesh on the same loop of vertices (in
\* either winding), a ValueError.
\* The new face brings the boundary edges the mesh does not have yet.
faces_new(m, vs) ==
    IF Len(vs) < 3 THEN [ err |-> "TypeError", mesh |-> m ]
    ELSE IF Cardinality(Range(vs)) # Len(vs) THEN [ err |-> "ValueError", mesh |-> m ]
    ELSE IF \E f \in 1..Len(m.faces) : SameLoop(m.faces[f], vs)
         THEN [ err |-> "ValueError", mesh |-> m ]
    ELSE [ err |-> "",
           mesh |-> [ m EXCEPT
                        !.faces = Append(@, vs),
                        !.edges = @ \o SelectSeq(FaceEdges(vs),
                                                 LAMBDA e : e \notin Range(m.edges)) ] ]

\* A run of statements "build the vertex list, then mesh.faces.new(it)", from
\* the x-th on; fs[x] is the vertex list, or the error that building it raises.
\* The first error ends the run.
RECURSIVE new_faces(_, _, _)
new_faces(m, fs, x) ==
    IF x > Len(fs) THEN [ err |-> "", mesh |-> m ]
    ELSE IF fs[x].err # "" THEN [ err |-> fs[x].err, mesh |-> m ]
    ELSE LET r == faces_new(m, fs[x].verts)
         IN  IF r.err # "" THEN r ELSE new_faces(r.mesh, fs, x + 1)

\* [level[i] for i in face]: TypeError on None, IndexError on a bad index.
Pick(level, face) ==
    IF Len(face) > 0 /\ level.isNone THEN [ err |-> "TypeError", verts |-> << >> ]
    ELSE IF \E x \in 1..Len(face) : ~InRange(level.items, face[x])
         THEN [ err |-> "IndexError", verts |-> << >> ]
    ELSE [ err |-> "", verts |-> [x \in 1..Len(face) |-> PyGet(level.items, face[x])] ]

----------------------------------------------------------------------------
\* make_bevel

\* polygons_to_edges([bevel_faces], True)[0]: the boundary edges of the faces
\* in order, each unordered pair once.
RECURSIVE UniqueEdges(_, _)
UniqueEdges(es, seen) ==
    IF Len(es) = 0 THEN << >>
    ELSE IF { es[1][1], es[1][2] } \in seen THEN UniqueEdges(Tail(es), seen)
    ELSE << es[1] >> \o UniqueEdges(Tail(es), seen \cup { { es[1][1], es[1][2] } })
RECURSIVE Concat(_)
Concat(ls) == IF Len(ls) = 0 THEN << >> ELSE ls[1] \o Concat(Tail(ls))
polygons_to_edges(faces) ==
    UniqueEdges(Concat([f \in 1..Len(faces) |->
                          [x \in 1..Len(faces[f]) |->
                              << faces[f][x], faces[f][(x % Len(faces[f])) + 1] >>]]),
                {})

\* bevel_edges after "if not bevel_edges and bevel_faces"; polygons_to_edges
\* reads face[0] and raises IndexError on a face without vertices.
EffectiveEdges(edges, faces) ==
    IF Len(edges) = 0 /\ Len(faces) # 0
    THEN IF \E f \in 1..Len(faces) : Len(faces[f]) = 0
         THEN [ err |-> "IndexError", edges |-> << >> ]
         ELSE [ err |-> "", edges |-> polygons_to_edges(faces) ]
    ELSE [ err |-> "", edges |-> edges ]

\* The ring of one station: matrix @ Vector(bevel_vertex) + spline_vertex for
\* every profile vertex, as the vertices mesh.verts.new returns.
LevelVerts(matrix, station, bevel_verts) ==
    [p \in 1..Len(bevel_verts) |->
        [ matrix |-> matrix, bevel_vertex |-> bevel_verts[p],
          spline_vertex |-> << station.t_for_curve, station.den >> ]]

\* The indices mesh.verts gives to a ring of k vertices appended to n vertices.
LevelIds(n, k) == [p \in 1..k |-> n + p - 1]

\* Fault of StitchFace: the quad is wound the other way, [v1, v2, v3, v4].
StitchFace_unreversed(prev, cur, i, j) ==
    << PyGet(prev, i), PyGet(cur, i), PyGet(cur, j), PyGet(prev, j) >>

\* The quad between two rings for profile edge (i, j): [v4, v3, v2, v1].
StitchFace(prev, cur, i, j) ==
    << PyGet(prev, j), PyGet(cur, j), PyGet(cur, i), PyGet(prev, i) >>

\* "for i,j in bevel_edges" of the station loop
Stitches(prev, cur, edges) ==
    [e \in 1..Len(edges) |->
        IF InRange(prev, edges[e][1]) /\ InRange(cur, edges[e][1])
           /\ InRange(cur, edges[e][2]) /\ InRange(prev, edges[e][2])
        THEN [ err |-> "", verts |-> StitchFace(prev, cur, edges[e][1], edges[e][2]) ]
        ELSE [ err |-> "IndexError", verts |-> << >> ]]

\* The quad closing a cyclic sweep for profile edge (i, j): [v1, v2, v3, v4].
CloseFace(first, prev, i, j) ==
    << PyGet(first, i), PyGet(prev, i), PyGet(prev, j), PyGet(first, j) >>

\* "for i,j in bevel_edges" of the cyclic branch; the rings are None when no
\* station was swept.
Closures(first, prev, edges) ==
    [e \in 1..Len(edges) |->
        IF first.isNone \/ prev.isNone THEN [ err |-> "TypeError", verts |-> << >> ]
        ELSE IF InRange(first.items, edges[e][1]) /\ InRange(prev.items, edges[e][1])
                /\ InRange(prev.items, edges[e][2]) /\ InRange(first.items, edges[e][2])
        THEN [ err |-> "",
               verts |-> CloseFace(first.items, prev.items, edges[e][1], edges[e][2]) ]
        ELSE [ err |-> "IndexError", verts |-> << >> ]]

\* Fault of StartCaps: the start cap is wound like the end cap.
StartCaps_unreversed(first, faces) ==
    IF Len(faces) = 0
    THEN IF first.isNone THEN << [ err |-> "TypeError", verts |-> << >> ] >>
         ELSE << [ err |-> "", verts |-> first.items ] >>
    ELSE [f \in 1..Len(faces) |-> Pick(first, faces[f])]

\* The faces of "if self.cap_start": the reversed first ring, or one reversed
\* face per profile face.
StartCaps(first, faces) ==
    IF Len(faces) = 0
    THEN IF first.isNone THEN << [ err |-> "TypeError", verts |-> << >> ] >>
         ELSE << [ err |-> "", verts |-> Reversed(first.items) ] >>
    ELSE [f \in 1..Len(faces) |-> Pick(first, Reversed(faces[f]))]

\* The faces of "if self.cap_end and prev_level_vertices is not None"
EndCaps(prev, faces) ==
    IF Len(faces) = 0
    THEN << [ err |-> "", verts |-> prev.items ] >>
    ELSE [f \in 1..Len(faces) |-> Pick(prev, faces[f])]

\* Lines 330-351: the caps of an open sweep, or the closure of a cyclic one.
Finish(m, first, prev, edges, faces) ==
    IF ~cfg.is_cyclic
    THEN new_faces(m,
            (IF cfg.cap_start THEN StartCaps(first, faces) ELSE << >>)
            \o (IF cfg.cap_end /\ ~prev.isNone THEN EndCaps(prev, faces) ELSE << >>),
            1)
    ELSE new_faces(m, Closures(first, prev, edges), 1)

\* pydata_from_bmesh
pydata_from_bmesh(m) == m

----------------------------------------------------------------------------
\* Inputs

\* A profile of k vertices, named 0..k-1.
Profile(k) == [p \in 1..k |-> p - 1]

\* The closed ring of k profile edges (0,1), (1,2), ..., (k-1,0).
RingEdges(k) == [e \in 1..k |-> << e - 1, e % k >>]

EdgeChoices(k) ==
    { << >>, RingEdges(k), << <<0, 1>> >>, << <<0, 1>>, <<1, 0>> >>,
      << <<0, k>> >>, << <<0, -1>> >> }

FaceChoices(k) ==
    { << >>, << Profile(k) >>, << <<0, 1, k>> >>, << <<0, 1, -1>> >> }

StepChoices == -1..MaxSteps

\* The path of the straight-sweep scenario.
StraightPath == << <<0, 0, 0>>, <<0, 0, 10>> >>

\* A taper control point at height z along the axis, of radius r along the
\* axis after it.
TaperPoint(axis, r, z) ==
    LET a == CASE axis = "X" -> 0 [] axis = "Y" -> 1 [] axis = "Z" -> 2
    IN  [c \in 1..3 |-> IF c = a + 1 THEN z
                        ELSE IF c = ((a + 1) % 3) + 1 THEN r
                        ELSE 0]
\* No taper, or a cone along the axis: control points evenly spaced on a line,
\* the radius falling from 3 to 1 as the height rises from 0 to 2.
TaperChoices(axis) ==
    { << >>,
      << TaperPoint(axis, 3, 0), TaperPoint(axis, 2, 1), TaperPoint(axis, 1, 2) >> }

\* Twist data of constant angle, in both shapes, and a bare list of one angle.
TwistChoices ==
    { NoTwist,
      [tden |-> 1, items |-> << <<2>>, <<2>> >>],
      [tden |-> 1, items |-> << <<0, 2>>, <<1, 2>> >>],
      [tden |-> 1, items |-> << <<2>> >>] }

Tuple(k, edges, faces, taper_verts, twist_data, steps) ==
    [ curve |-> StraightPath, bevel_verts |-> Profile(k), bevel_edges |-> edges,
      bevel_faces |-> faces, taper_verts |-> taper_verts,
      twist_data |-> twist_data, steps |-> steps ]

\* Sweeps of every profile shape and step count, without taper or twist.
TopologyTuples ==
    UNION { { Tuple(k, e, f, << >>, NoTwist, n) :
                e \in EdgeChoices(k), f \in FaceChoices(k), n \in StepChoices } :
            k \in 0..MaxK }

\* Sweeps of a triangle ring with every taper and twist input, the taper
\* drawn along the node's orientation axis.
SamplerTuples(axis) ==
    { Tuple(3, RingEdges(3), << >>, tp, tw, n) :
        tp \in TaperChoices(axis), tw \in TwistChoices, n \in 1..MaxSteps }

\* A triangle ring, swept with two stations and with four.
ConfigTuples == { Tuple(3, RingEdges(3), << >>, << >>, NoTwist, n) : n \in {2, 4} }

\* Two sweeps that succeed and two that fail, for batches.
BatchTuples ==
    { Tuple(3, RingEdges(3), << >>, << >>, NoTwist, 4),
      Tuple(2, << <<0, 1>> >>, << >>, << >>, NoTwist, 2),
      Tuple(3, << <<0, 3>> >>, << >>, << >>, NoTwist, 2),
      Tuple(3, RingEdges(3), << >>, << >>, NoTwist, -1) }

\* match_long_repeat of the sockets' lists: 1..MaxBatch matched tuples.
Batches(S) == UNION { [1..n -> S] : n \in 1..MaxBatch }

----------------------------------------------------------------------------
\* State machine of process()

Locals ==
    /\ taper = None /\ twist = None /\ spline = None
    /\ stations = << >> /\ bevel_edges = << >> /\ st = 0
    /\ mesh = EmptyMesh
    /\ first_level_vertices = None /\ prev_level_vertices = None

\* The node before process() has evaluated anything.
Constructed ==
    /\ idx = 1 /\ error = ""
    /\ out = << >> /\ outputs = [ set |-> FALSE, meshes |-> << >> ]
    /\ Locals

Start == Constructed /\ pc = "process"

InitTopology ==
    /\ cfg \in { [DefaultCfg EXCEPT !.is_cyclic = c, !.cap_start = a, !.cap_end = b] :
                 c \in BOOLEAN, a \in BOOLEAN, b \in BOOLEAN }
    /\ inputs \in { << t >> : t \in TopologyTuples }

InitSampler ==
    /\ cfg \in { [DefaultCfg EXCEPT !.is_cyclic = c, !.separate_scale = s,
                                    !.orient_axis = o, !.taper_metric = tm,
                                    !.flip_curve = fc,
                                    !.flip_taper = ft, !.flip_twist = fw] :
                 c \in BOOLEAN, s \in BOOLEAN, o \in Axes, tm \in TaperMetrics,
                 fc \in BOOLEAN, ft \in BOOLEAN, fw \in BOOLEAN }
    /\ inputs \in { << t >> : t \in SamplerTuples(cfg.orient_axis) }

\* A node under any configuration of its enumerated properties, about to have
\* one of them assigned.
InitConfig ==
    /\ cfg \in { [DefaultCfg EXCEPT !.is_cyclic = c, !.algorithm = a,
                                    !.bevel_mode = bm,
                                    !.taper_mode = tm, !.twist_mode = wm,
                                    !.metric = me] :
                 c \in BOOLEAN, a \in Algorithms, bm \in Modes,
                 tm \in Modes, wm \in Modes, me \in Metrics }
    /\ inputs \in { << t >> : t \in ConfigTuples }

InitBatch ==
    /\ cfg \in { [DefaultCfg EXCEPT !.is_cyclic = c] : c \in BOOLEAN }
    /\ inputs \in Batches(BatchTuples)

\* The node without a linked output socket.
InitUnlinked ==
    /\ cfg \in { [DefaultCfg EXCEPT !.outputs_linked = FALSE, !.is_cyclic = c] :
                 c \in BOOLEAN }
    /\ inputs \in Batches(BatchTuples)

\* split_mesh_elements_node has not been called.
SplitIdle ==
    /\ args = [ vertices |-> << >>, edges |-> << >>, faces |-> << >>,
                mask |-> << >>, split_type |-> "VERTS" ]
    /\ spc = "idle"
    /\ selected_verts = << >> /\ out_verts = << >> /\ old_v_indexes = << >>
    /\ out_faces = << >> /\ old_new_verts = << >>
    /\ ret = None

Init ==
    /\ \/ Start /\ InitTopology
       \/ Start /\ InitSampler
       \/ Constructed /\ pc = "config" /\ InitConfig
       \/ Start /\ InitBatch
       \/ Start /\ InitUnlinked
    /\ SplitIdle

\* An exception leaves process(): nothing after the raising statement runs.
Raise(e) == pc' = "raised" /\ error' = e

\* Lines 35-75: a token is assigned to an enumerated property.  An accepted
\* token calls updateNode, which has the node processed; a token that is not
\* an item of the property raises and nothing is processed.
SetProperty ==
    /\ pc = "config"
    /\ \E prop \in EnumProperties : \E token \in Items(prop) \cup {"other"} :
          LET r == set_enum(cfg, prop, token)
          IN  /\ cfg' = r.cfg
              /\ IF r.err # "" THEN Raise(r.err)
                 ELSE pc' = "process" /\ error' = error
    /\ UNCHANGED << inputs, idx, taper, twist, spline, stations, bevel_edges, st,
                    mesh, first_level_vertices, prev_level_vertices, out, outputs >>
    /\ UNCHANGED svars

\* Lines 361-362: with no output socket linked process() returns at once.
Unlinked ==
    /\ pc = "process" /\ ~cfg.outputs_linked
    /\ pc' = "done"
    /\ UNCHANGED << cfg, inputs, idx, error, taper, twist, spline, stations,
                    bevel_edges, st, mesh, first_level_vertices, prev_level_vertices,
                    out, outputs >>
    /\ UNCHANGED svars

\* Lines 380-382: the next matched tuple; its taper and twist splines.
NextTuple ==
    /\ pc = "process" /\ cfg.outputs_linked /\ idx <= Len(inputs)
    /\ LET tw == make_twist_spline(inputs[idx].twist_data)
       IN  /\ taper' = make_taper_spline(inputs[idx].taper_verts)
           /\ twist' = tw.spline
           /\ IF tw.err # "" THEN Raise(tw.err)
              ELSE pc' = "bevel" /\ error' = error
    /\ UNCHANGED << cfg, inputs, idx, spline, stations, bevel_edges, st, mesh,
                    first_level_vertices, prev_level_vertices, out, outputs >>
    /\ UNCHANGED svars

\* Lines 279-309 of make_bevel: the path spline, the samples, the edges to
\* stitch, the empty mesh.
Sample ==
    /\ pc = "bevel"
    /\ LET in == inputs[idx]
           ls == linspace(in.steps)
           ts == t_values(ls.ts)
           ee == EffectiveEdges(in.bevel_edges, in.bevel_faces)
       IN  /\ spline' = build_spline(in.curve, cfg.bevel_mode, cfg.is_cyclic, "None")
           /\ IF ls.err # ""
              THEN Raise(ls.err) /\ UNCHANGED << stations, bevel_edges >>
              ELSE /\ stations' = [x \in 1..Len(ts) |-> Station(ts[x], Den(in.steps))]
                   /\ bevel_edges' = ee.edges
                   /\ IF ee.err # "" THEN Raise(ee.err)
                      ELSE pc' = "level" /\ error' = error
    /\ st' = 0 /\ mesh' = EmptyMesh
    /\ first_level_vertices' = None /\ prev_level_vertices' = None
    /\ UNCHANGED << cfg, inputs, idx, taper, twist, out, outputs >>
    /\ UNCHANGED svars

\* Lines 310-328: one pass of the station loop.
Level ==
    /\ pc = "level" /\ st < Len(stations)
    /\ LET station == stations[st + 1]
           gm == get_matrix(<< station.t_for_curve, station.den >>, station.twist_value,
                            station.taper_value[1], station.taper_value[2])
           bevel_verts == inputs[idx].bevel_verts
           level_vertices == LevelIds(Len(mesh.verts), Len(bevel_verts))
           m1 == [mesh EXCEPT !.verts = @ \o LevelVerts(gm.matrix, station, bevel_verts)]
           r == IF prev_level_vertices.isNone THEN [ err |-> "", mesh |-> m1 ]
                ELSE new_faces(m1, Stitches(prev_level_vertices.items, level_vertices,
                                            bevel_edges), 1)
       IN  IF gm.err # ""
           THEN /\ Raise(gm.err)
                /\ UNCHANGED << st, mesh, first_level_vertices, prev_level_vertices >>
           ELSE /\ mesh' = r.mesh
                /\ IF r.err # ""
                   THEN /\ Raise(r.err)
                        /\ UNCHANGED << st, first_level_vertices, prev_level_vertices >>
                   ELSE /\ first_level_vertices' =
                              IF first_level_vertices.isNone THEN Some(level_vertices)
                              ELSE first_level_vertices
                        /\ prev_level_vertices' = Some(level_vertices)
                        /\ st' = st + 1
                        /\ UNCHANGED << pc, error >>
    /\ UNCHANGED << cfg, inputs, idx, taper, twist, spline, stations, bevel_edges,
                    out, outputs >>
    /\ UNCHANGED svars

\* Lines 330-358: caps or cyclic closure after the last station; the mesh is returned.
Close ==
    /\ pc = "level" /\ st = Len(stations)
    /\ LET r == Finish(mesh, first_level_vertices, prev_level_vertices, bevel_edges,
                       inputs[idx].bevel_faces)
       IN  /\ mesh' = r.mesh
           /\ IF r.err # "" THEN Raise(r.err) ELSE pc' = "collect" /\ error' = error
    /\ UNCHANGED << cfg, inputs, idx, taper, twist, spline, stations, bevel_edges, st,
                    first_level_vertices, prev_level_vertices, out, outputs >>
    /\ UNCHANGED svars

\* Lines 384-388: the mesh of this tuple joins the output lists and is freed;
\* the locals of the finished make_bevel call are gone.
Collect ==
    /\ pc = "collect"
    /\ out' = Append(out, pydata_from_bmesh(mesh))
    /\ idx' = idx + 1
    /\ pc' = "process"
    /\ spline' = None /\ stations' = << >> /\ bevel_edges' = << >> /\ st' = 0
    /\ mesh' = EmptyMesh
    /\ first_level_vertices' = None /\ prev_level_vertices' = None
    /\ UNCHANGED << cfg, inputs, error, taper, twist, outputs >>
    /\ UNCHANGED svars

\* Lines 390-392: after the last tuple the output sockets are set.
Deliver ==
    /\ pc = "process" /\ cfg.outputs_linked /\ idx > Len(inputs)
    /\ outputs' = [ set |-> TRUE, meshes |-> out ]
    /\ pc' = "done"
    /\ UNCHANGED << cfg, inputs, idx, error, taper, twist, spline, stations,
                    bevel_edges, st, mesh, first_level_vertices, prev_level_vertices,
                    out >>
    /\ UNCHANGED svars

Next == SetProperty \/ Unlinked \/ NextTuple \/ Sample \/ Level \/ Close \/ Collect \/ Deliver

Spec == Init /\ [][Next]_vars

----------------------------------------------------------------------------
\* split_mesh_elements_node and split_by_vertices

\* fixed_iter(data, n) of a non-empty list: its first n items, the last item
\* repeated when the list is shorter.
fixed_iter(data, n) ==
    [x \in 1..n |-> IF x <= Len(data) THEN data[x] ELSE data[Len(data)]]

\* selected_verts after lines 69-72
normalize_mask(mask, verts) ==
    IF Len(mask) = 0 THEN [x \in 1..Len(verts) |-> TRUE]
    ELSE IF Len(mask) # Len(verts) THEN fixed_iter(mask, Len(verts))
    ELSE mask

\* "i in old_new_verts" and old_new_verts[i]
DictHas(d, key) == \E x \in 1..Len(d) : d[x][1] = key
DictGet(d, key) == d[CHOOSE x \in 1..Len(d) : d[x][1] = key][2]

\* A loop body that gives every corner the dict's shared copy, selected or not.
split_corner_always_shared(verts, sel, i, acc) ==
    IF ~InRange(sel, i) THEN [acc EXCEPT !.err = "IndexError"]
    ELSE IF DictHas(acc.old_new_verts, i)
    THEN [acc EXCEPT !.new_face = Append(@, DictGet(acc.old_new_verts, i))]
    ELSE [acc EXCEPT !.out_verts = Append(@, PyGet(verts, i)),
                     !.old_v_indexes = Append(@, i),
                     !.old_new_verts = Append(@, << i, Len(acc.out_verts) >>),
                     !.new_face = Append(@, Len(acc.out_verts))]

\* Lines 81-92: one corner i of a face.  A selected vertex is copied for this
\* corner alone; an unselected one is copied the first time it is met and
\* looked up in old_new_verts afterwards.
split_corner(verts, sel, i, acc) ==
    IF ~InRange(sel, i) THEN [acc EXCEPT !.err = "IndexError"]
    ELSE IF PyGet(sel, i)
    THEN [acc EXCEPT !.out_verts = Append(@, PyGet(verts, i)),
                     !.old_v_indexes = Append(@, i),
                     !.new_face = Append(@, Len(acc.out_verts))]
    ELSE IF DictHas(acc.old_new_verts, i)
    THEN [acc EXCEPT !.new_face = Append(@, DictGet(acc.old_new_verts, i))]
    ELSE [acc EXCEPT !.out_verts = Append(@, PyGet(verts, i)),
                     !.old_v_indexes = Append(@, i),
                     !.old_new_verts = Append(@, << i, Len(acc.out_verts) >>),
                     !.new_face = Append(@, Len(acc.out_verts))]

\* Lines 79-92: "for i in face", from corner x on.
RECURSIVE split_face(_, _, _, _, _)
split_face(verts, sel, face, x, acc) ==
    IF x > Len(face) \/ acc.err # "" THEN acc
    ELSE split_face(verts, sel, face, x + 1, split_corner(verts, sel, face[x], acc))

\* polygons_to_edges_np([out_faces], unique_edges=True)[0]
polygons_to_edges_np(faces) == polygons_to_edges(faces)

\* edge_indexes.get(tuple(sorted(e)), -1): the dict comprehension of line 96
\* keeps the last index of equal keys.
edge_index(edges, e) ==
    LET hits == { x \in 1..Len(edges) : { edges[x][1], edges[x][2] } = { e[1], e[2] } }
    IN  IF hits = {} THEN -1
        ELSE (CHOOSE x \in hits : \A y \in hits : y <= x) - 1

\* Lines 95-104
split_edges_of(edges, faces, old_v) ==
    IF Len(edges) = 0 THEN [ out_edges |-> << >>, old_e_indexes |-> << >> ]
    ELSE LET oe == polygons_to_edges_np(faces)
         IN  [ out_edges |-> oe,
               old_e_indexes |->
                 [x \in 1..Len(oe) |->
                    edge_index(edges, << old_v[oe[x][1] + 1], old_v[oe[x][2] + 1] >>)] ]

\* The six lists of a return statement.
Six(vs, es, fs, vi, ei, fi) ==
    [ isNone |-> FALSE, err |-> "",
      vs |-> vs, es |-> es, fs |-> fs, vi |-> vi, ei |-> ei, fi |-> fi ]
SplitRaised(e) ==
    [ isNone |-> FALSE, err |-> e,
      vs |-> << >>, es |-> << >>, fs |-> << >>, vi |-> << >>, ei |-> << >>, fi |-> << >> ]

\* bm.edges.new((v1, v2)): the same vertex twice, or an edge the mesh has
\* already, is a ValueError.
edges_new(m, vs) ==
    IF vs[1] = vs[2] \/ { vs[1], vs[2] } \in Range(m.edges)
    THEN [ err |-> "ValueError", mesh |-> m ]
    ELSE [ err |-> "", mesh |-> [ m EXCEPT !.edges = Append(@, { vs[1], vs[2] }) ] ]

\* The statements "index bm_verts, then bm.edges.new" of add_mesh_to_bmesh,
\* from the x-th on; the first error ends the run.
RECURSIVE new_edges(_, _, _)
new_edges(m, es, x) ==
    IF x > Len(es) THEN [ err |-> "", mesh |-> m ]
    ELSE IF es[x].err # "" THEN [ err |-> es[x].err, mesh |-> m ]
    ELSE LET r == edges_new(m, es[x].verts)
         IN  IF r.err # "" THEN r ELSE new_edges(r.mesh, es, x + 1)

\* add_mesh_to_bmesh(bm, verts, edges, faces, 'initial_index'): the vertices,
\* then the edges, then the faces, each element numbered by its position.
add_mesh_to_bmesh(verts, edges, faces) ==
    LET bm_verts == Some(LevelIds(0, Len(verts)))
        m0 == [ EmptyMesh EXCEPT !.verts = verts ]
        r1 == new_edges(m0, [x \in 1..Len(edges) |-> Pick(bm_verts, edges[x])], 1)
    IN  IF r1.err # "" THEN r1
        ELSE new_faces(r1.mesh, [x \in 1..Len(faces) |-> Pick(bm_verts, faces[x])], 1)

\* [e for e, b in zip(bm.edges, selected_edges) if b], as 0-based edge indices
tagged_edges(m, selected_edges) ==
    LET n == IF Len(m.edges) < Len(selected_edges) THEN Len(m.edges)
             ELSE Len(selected_edges)
        pos == SelectSeq([x \in 1..n |-> x], LAMBDA x : selected_edges[x])
    IN  [x \in 1..Len(pos) |-> pos[x] - 1]

\* What split_by_edges returns: the six lists mesh_indexes_from_bmesh reads
\* from the bmesh after bmesh.ops.split_edges, kept as the bmesh before the
\* operator and the edges handed to it.
SplitEdgesResult(m, tagged) ==
    [ isNone |-> FALSE, err |-> "", op |-> "split_edges", bm |-> m, edges |-> tagged ]

\* Input meshes: vertices on a line, faces over them.
SplitVerts(nv) == [i \in 1..nv |-> << i - 1, 0, 0 >>]
Triangles(nv) ==
    { t \in (0..(nv - 1)) \X (0..(nv - 1)) \X (0..(nv - 1)) :
        t[1] < t[2] /\ t[2] < t[3] }
\* Triangles, a quad, and two faces whose last index names no vertex of its
\* own: one past the end, and one counted from the end.
FacePool(nv) ==
    Triangles(nv)
    \cup (IF nv >= 4 THEN { << 0, 1, 2, 3 >> } ELSE {})
    \cup (IF nv >= 2 THEN { << 0, 1, nv >>, << 0, 1, -1 >> } ELSE {})
FaceLists(nv) == UNION { [1..n -> FacePool(nv)] : n \in 0..MaxFaces }
\* No mask, a mask of one flag, a full mask, a mask one flag too long.
MaskChoices(nv) ==
    { << >> } \cup [1..1 -> BOOLEAN] \cup [1..nv -> BOOLEAN]
    \cup { [x \in 1..(nv + 1) |-> x % 2 = 0] }
EdgeLists == { << >>, << << 1, 0 >>, << 1, 2 >> >> }
\* Edge masks: none, the first edge, the second and the fourth.
EdgeMasks == { << >>, << TRUE >>, << FALSE, TRUE, FALSE, TRUE >> }
\* The arguments of one call: a mesh of nv vertices to split by vertices or by
\* edges, or a call with an unknown split_type.
SplitArgs(a) ==
    \/ \E nv \in 0..MaxVerts : \E e \in EdgeLists : \E f \in FaceLists(nv) :
          \E m \in MaskChoices(nv) :
             a = [ vertices |-> SplitVerts(nv), edges |-> e, faces |-> f, mask |-> m,
                   split_type |-> "VERTS" ]
    \/ \E nv \in 0..MaxVerts : \E e \in EdgeLists : \E f \in FaceLists(nv) :
          \E m \in EdgeMasks :
             a = [ vertices |-> SplitVerts(nv), edges |-> e, faces |-> f, mask |-> m,
                   split_type |-> "EDGES" ]
    \/ a = [ vertices |-> SplitVerts(3), edges |-> << >>, faces |-> << << 0, 1, 2 >> >>,
             mask |-> << >>, split_type |-> "other" ]

\* split_mesh_elements_node is called with the mask in the domain of the
\* split: mask_mode = 'BY_VERTEX' for 'VERTS', 'BY_EDGE' for 'EDGES', so that
\* mask_converter_node is not called.  face_data (line 35) is not returned.
SplitInit ==
    /\ cfg = DefaultCfg /\ inputs = << >> /\ Start
    /\ SplitArgs(args)
    /\ spc = "call"
    /\ selected_verts = << >> /\ out_verts = << >> /\ old_v_indexes = << >>
    /\ out_faces = << >> /\ old_new_verts = << >>
    /\ ret = None

\* Lines 30-58, then lines 68-77 of split_by_vertices: the early return
\* without vertices, the dispatch on split_type, the mask made one flag per vertex.
split_mesh_elements_node ==
    /\ spc = "call"
    /\ IF Len(args.vertices) = 0
       THEN /\ ret' = Six(<< >>, << >>, << >>, << >>, << >>, << >>)
            /\ spc' = "done"
            /\ UNCHANGED selected_verts
       ELSE IF args.split_type = "VERTS"
       THEN /\ selected_verts' = normalize_mask(args.mask, args.vertices)
            /\ spc' = "faces"
            /\ UNCHANGED ret
       ELSE IF args.split_type = "EDGES"
       THEN /\ spc' = "edges"
            /\ UNCHANGED << selected_verts, ret >>
       ELSE /\ ret' = SplitRaised("TypeError")
            /\ spc' = "raised"
            /\ UNCHANGED selected_verts
    /\ UNCHANGED << args, out_verts, old_v_indexes, out_faces, old_new_verts >>
    /\ UNCHANGED bvars

\* Lines 78-93: one pass of "for face in faces".
split_by_vertices_face ==
    /\ spc = "faces" /\ Len(out_faces) < Len(args.faces)
    /\ LET face == args.faces[Len(out_faces) + 1]
           r == split_face(args.vertices, selected_verts, face, 1,
                           [ err |-> "", out_verts |-> out_verts,
                             old_v_indexes |-> old_v_indexes,
                             old_new_verts |-> old_new_verts,
                             new_face |-> << >> ])
       IN  /\ out_verts' = r.out_verts
           /\ old_v_indexes' = r.old_v_indexes
           /\ old_new_verts' = r.old_new_verts
           /\ IF r.err # ""
              THEN /\ ret' = SplitRaised(r.err)
                   /\ spc' = "raised"
                   /\ UNCHANGED out_faces
              ELSE /\ out_faces' = Append(out_faces, r.new_face)
                   /\ UNCHANGED << spc, ret >>
    /\ UNCHANGED << args, selected_verts >>
    /\ UNCHANGED bvars

\* Lines 95-106 and line 60: the edges, old_f_indexes, the return.
split_by_vertices_return ==
    /\ spc = "faces" /\ Len(out_faces) = Len(args.faces)
    /\ LET e == split_edges_of(args.edges, out_faces, old_v_indexes)
       IN  ret' = Six(out_verts, e.out_edges, out_faces, old_v_indexes,
                      e.old_e_indexes, [x \in 1..Len(args.faces) |-> x - 1])
    /\ spc' = "done"
    /\ UNCHANGED << args, selected_verts, out_verts, old_v_indexes, out_faces,
                    old_new_verts >>
    /\ UNCHANGED bvars

\* Lines 109-114 and line 60: the bmesh of the input, the selected edges
\* given to bmesh.ops.split_edges, the return.
split_by_edges ==
    /\ spc = "edges"
    /\ LET r == add_mesh_to_bmesh(args.vertices, args.edges, args.faces)
       IN  IF r.err # ""
           THEN ret' = SplitRaised(r.err) /\ spc' = "raised"
           ELSE /\ ret' = SplitEdgesResult(r.mesh, tagged_edges(r.mesh, args.mask))
                /\ spc' = "done"
    /\ UNCHANGED << args, selected_verts, out_verts, old_v_indexes, out_faces,
                    old_new_verts >>
    /\ UNCHANGED bvars

SplitNext ==
    \/ split_mesh_elements_node
    \/ split_by_vertices_face
    \/ split_by_vertices_return
    \/ split_by_edges

SplitSpec == SplitInit /\ [][SplitNext]_vars

----------------------------------------------------------------------------
\* Properties

\* The tuple being evaluated, its profile size and its step count.
In == inputs[IF idx <= Len(inputs) THEN idx ELSE Len(inputs)]
K == Len(In.bevel_verts)
N == In.steps

\* make_bevel is running or has ended: its first statement has run.
InMakeBevel == idx <= Len(inputs) /\ spline # None
\* make_bevel has returned its mesh / has raised.
Returned == pc = "collect"
BevelRaised == pc = "raised" /\ InMakeBevel

\* The vertex indices of the r-th ring (r = 0, 1, ...) of a sweep of k-vertex rings.
Ring(r, k) == [p \in 1..k |-> r * k + p - 1]
\* Position i of the r-th ring, for an index i in -k..k-1.
At(r, k, i) == r * k + (IF i < 0 THEN i + k ELSE i)

IsQuad(f) == Len(f) = 4
IsRotation(a, b) ==
    /\ Len(a) = Len(b)
    /\ \E sh \in 0..(Len(a) - 1) :
          \A x \in 1..Len(a) : a[x] = b[((x - 1 + sh) % Len(b)) + 1]

KnownAlgorithm == cfg.algorithm \in Algorithms

\* Profile edges that name positions of the k-vertex profile, join two
\* different positions, and are pairwise different as unordered pairs.
CleanEdges(es, k) ==
    /\ \A e \in 1..Len(es) :
          /\ es[e][1] \in (-k)..(k - 1) /\ es[e][2] \in (-k)..(k - 1)
          /\ At(0, k, es[e][1]) # At(0, k, es[e][2])
    /\ \A e, f \in 1..Len(es) :
          e # f => { At(0, k, es[e][1]), At(0, k, es[e][2]) }
                   # { At(0, k, es[f][1]), At(0, k, es[f][2]) }

\* ---- C1 ----
\* C1: an open sweep without caps of a k-vertex profile (k >= 3) with the
\* closed ring of k profile edges and step_count n >= 2 returns a mesh of
\* exactly k*n vertices and k*(n-1) faces, all of them quads.
C1_Case ==
    /\ idx <= Len(inputs) /\ KnownAlgorithm
    /\ ~cfg.is_cyclic /\ ~cfg.cap_start /\ ~cfg.cap_end
    /\ K >= 3 /\ In.bevel_edges = RingEdges(K) /\ N >= 2
C1_OpenSweepCounts ==
    C1_Case =>
        /\ ~BevelRaised
        /\ Returned =>
              /\ Len(mesh.verts) = K * N
              /\ Len(mesh.faces) = K * (N - 1)
              /\ \A f \in 1..Len(mesh.faces) : IsQuad(mesh.faces[f])
\* The scenario of the unit square swept in 5 steps: 20 vertices, 16 quads.
C1_Witness ==
    /\ C1_Case /\ Returned /\ K = 4 /\ N = 5
    /\ Len(mesh.verts) = 20 /\ Len(mesh.faces) = 16

\* ---- C2 ----
\* C2: a cyclic sweep with step_count n (any valid n >= 2) and clean profile
\* edges returns a mesh of n-1 rings and (n-1) * |edges| faces.
C2_Case ==
    /\ idx <= Len(inputs) /\ KnownAlgorithm /\ cfg.is_cyclic
    /\ EffectiveEdges(In.bevel_edges, In.bevel_faces).err = ""
    /\ CleanEdges(EffectiveEdges(In.bevel_edges, In.bevel_faces).edges, K)
C2_CyclicCountsAnySteps ==
    (C2_Case /\ N >= 2) =>
        /\ ~BevelRaised
        /\ Returned =>
              /\ st = N - 1
              /\ Len(mesh.faces) = (N - 1) * Len(bevel_edges)

\* ---- C3 ----
\* C3: a sweep (step_count >= 2) whose profile edges refer to an index that is
\* not a position 0..k-1 of the profile never returns a mesh.
C3_EdgeIndexRejected ==
    (idx <= Len(inputs) /\ Returned /\ N >= 2) =>
        \A e \in 1..Len(bevel_edges) :
            bevel_edges[e][1] \in 0..(K - 1) /\ bevel_edges[e][2] \in 0..(K - 1)

\* ---- C4 ----
\* C4: make_bevel never returns a mesh for a step_count below 2.
C4_StepsBelowTwoRejected ==
    (idx <= Len(inputs) /\ Returned) => N >= 2

\* ---- C5 ----
\* C5: without taper input every station's scale pair is (1, 1), and without
\* twist input every station's twist angle is 0 (values are kept times den).
C5_NoTaperNoTwistIdentity ==
    (idx <= Len(inputs) /\ pc \in {"level", "collect"}) =>
        \A x \in 1..Len(stations) :
            /\ Len(In.taper_verts) = 0 =>
                  stations[x].taper_value = << stations[x].den, stations[x].den >>
            /\ Len(In.twist_data.items) = 0 => stations[x].twist_value = 0

\* ---- C6 ----
\* C6: in every mesh under construction or returned, the faces stitched
\* between ring r-1 and ring r are, in profile-edge order, exactly the quads
\* (prev[j], cur[j], cur[i], prev[i]), one per profile edge; and the faces that
\* close a cyclic sweep are, up to rotation, the same quads with prev the last
\* ring and cur the first.
C6_QuadRule ==
    (idx <= Len(inputs) /\ pc \in {"level", "collect"}) =>
        LET ne == Len(bevel_edges)
            i(e) == bevel_edges[e][1]
            j(e) == bevel_edges[e][2]
        IN  /\ pc = "level" => Len(mesh.faces) = (IF st = 0 THEN 0 ELSE (st - 1) * ne)
            /\ \A r \in 1..(st - 1) : \A e \in 1..ne :
                  mesh.faces[(r - 1) * ne + e] =
                      << At(r - 1, K, j(e)), At(r, K, j(e)),
                         At(r, K, i(e)), At(r - 1, K, i(e)) >>
            /\ (pc = "collect" /\ cfg.is_cyclic /\ st >= 1) =>
                  /\ Len(mesh.faces) = st * ne
                  /\ \A e \in 1..ne :
                        IsRotation(mesh.faces[(st - 1) * ne + e],
                                   << At(st - 1, K, j(e)), At(0, K, j(e)),
                                      At(0, K, i(e)), At(st - 1, K, i(e)) >>)
\* A cyclic sweep of a ring of at least 3 edges over at least 3 rings has returned.
C6_Witness ==
    /\ idx <= Len(inputs) /\ Returned /\ cfg.is_cyclic
    /\ K >= 3 /\ bevel_edges = RingEdges(K) /\ st >= 3
    /\ Len(mesh.faces) = st * K

\* ---- C7 ----
\* C7: when an open sweep of a k-vertex profile (k >= 3, step_count >= 2) with
\* no explicit profile faces ends, the cap step fails in no case and appends
\* to the faces of the uncapped sweep exactly: the first ring in reversed
\* profile order if cap_start is set, then the last ring in profile order if
\* cap_end is set (two faces for both flags, one for one flag, none for none).
C7_Case ==
    /\ idx <= Len(inputs) /\ ~cfg.is_cyclic
    /\ K >= 3 /\ N >= 2 /\ Len(In.bevel_faces) = 0
C7_CapsAdded ==
    [][ (C7_Case /\ pc = "level" /\ st = Len(stations)) =>
            /\ pc' = "collect"
            /\ mesh'.verts = mesh.verts
            /\ mesh'.faces = mesh.faces
                  \o (IF cfg.cap_start THEN << Reversed(Ring(0, K)) >> ELSE << >>)
                  \o (IF cfg.cap_end THEN << Ring(N - 1, K) >> ELSE << >>) ]_vars
\* A square ring swept in 3 steps with both caps: 8 side quads, then the two caps.
C7_Witness ==
    /\ C7_Case /\ Returned /\ cfg.cap_start /\ cfg.cap_end
    /\ K = 4 /\ N = 3 /\ In.bevel_edges = RingEdges(4)
    /\ Len(mesh.faces) = 10
    /\ mesh.faces[9] = << 3, 2, 1, 0 >>
    /\ mesh.faces[10] = << 8, 9, 10, 11 >>

\* ---- C8 ----
\* C8: a sweep of a profile with no vertices, edges or faces and a valid
\* step_count never raises, whatever is_cyclic, cap_start and cap_end are.
C8_EmptyProfileNoError ==
    (idx <= Len(inputs) /\ K = 0 /\ Len(In.bevel_edges) = 0
        /\ Len(In.bevel_faces) = 0 /\ N >= 2 /\ KnownAlgorithm)
    => ~BevelRaised

\* ---- C9 ----
\* C9: when a tuple of a batch fails, the meshes of the tuples that succeeded
\* are delivered on the outputs.
C9_SiblingsDelivered ==
    (pc = "raised" /\ Len(out) > 0) => (outputs.set /\ outputs.meshes = out)

\* ---- C10 ----
\* The assignment of a token to an enumerated property has raised: nothing of
\* process() has run.
ConfigRejected ==
    pc = "raised" /\ error = "TypeError" /\ idx = 1 /\ taper = None /\ spline = None
\* Every strategy token of the configuration is an item of its property.
TokensKnown ==
    /\ cfg.algorithm \in Algorithms
    /\ cfg.bevel_mode \in Modes /\ cfg.taper_mode \in Modes
    /\ cfg.twist_mode \in Modes

C11_SinglePointSweep ==
    (idx <= Len(inputs) /\ K = 1 /\ Len(In.bevel_edges) = 0
        /\ Len(In.bevel_faces) = 0 /\ N >= 2 /\ KnownAlgorithm)
    => /\ ~BevelRaised
       /\ Returned =>
             /\ Len(mesh.verts) = (IF cfg.is_cyclic THEN N - 1 ELSE N)
             /\ Len(mesh.faces) = 0

\* ---- C12 ----
\* A bare list of angles: non-empty, its items not (t, twist) pairs.
IsBare(data) == Len(data.items) >= 1 /\ Len(data.items[1]) = 1
\* The explicit pair list [(i/(n-1), a_i)] of the bare list a_0..a_(n-1).
ExplicitPairs(data) ==
    [ tden |-> Len(data.items) - 1,
      items |-> [x \in 1..Len(data.items) |-> << x - 1, data.items[x][1] >>] ]
\* The same control points: the same angles at the same parameters.
SameControlPoints(s1, s2) ==
    /\ Len(s1.points) = Len(s2.points)
    /\ \A x \in 1..Len(s1.points) :
          /\ s1.points[x][1] = s2.points[x][1]
          /\ s1.points[x][2] = s2.points[x][2]
          /\ s1.points[x][3] * s2.zden = s2.points[x][3] * s1.zden
\* make_twist_spline has run for the current tuple / has raised.
TwistMade == idx <= Len(inputs) /\ pc \notin {"process", "done"}
TwistRaised == pc = "raised" /\ idx <= Len(inputs) /\ spline = None

\* C12: for every non-empty bare list of angles make_twist_spline raises
\* nothing and builds the control points it builds for the explicit pair
\* list [(i/(n-1), a_i)].
C12_BareEqualsPairs ==
    (TwistMade /\ IsBare(In.twist_data))
    => /\ ~TwistRaised
       /\ SameControlPoints(twist,
                            make_twist_spline(ExplicitPairs(In.twist_data)).spline)

\* ---- C13 ----
\* The samples of the current sweep have been taken.
C13_Case == InMakeBevel /\ pc \in {"level", "collect"}
\* The number of stations of a sweep: a function of step_count and is_cyclic only.
StationCount ==
    IF cfg.is_cyclic THEN (IF N >= 1 THEN N - 1 ELSE 0) ELSE (IF N >= 0 THEN N ELSE 0)
\* The parameter of station x (x = 1, 2, ...), times Den(N), under a flip flag.
ParamOf(flag, x) == IF flag THEN Den(N) - (x - 1) ELSE x - 1

\* C13: station s samples the path, the taper and the twist at t_s or at
\* 1 - t_s, each according to its own flip flag alone, and the taper and twist
\* values are the ones at those parameters; the number and the order of the
\* stations do not depend on the flags.
C13_FlipsIndependent ==
    C13_Case =>
        /\ Len(stations) = StationCount
        /\ \A x \in 1..Len(stations) :
              /\ stations[x].den = Den(N)
              /\ stations[x].t_for_curve = ParamOf(cfg.flip_curve, x)
              /\ stations[x].t_for_taper = ParamOf(cfg.flip_taper, x)
              /\ stations[x].t_for_twist = ParamOf(cfg.flip_twist, x)
              /\ stations[x].taper_value =
                    get_taper_scale(SplineEval(taper, ParamOf(cfg.flip_taper, x), Den(N)))
              /\ stations[x].twist_value =
                    get_twist_value(SplineEval(twist, ParamOf(cfg.flip_twist, x), Den(N)))

\* An open sweep of four stations under a taper, with the path and the twist
\* flipped and the taper not: the path runs from t = 1 down to t = 0 while the
\* taper runs from its first control point to its last.
C13_Witness ==
    /\ C13_Case /\ pc = "collect" /\ ~cfg.is_cyclic /\ N = 4
    /\ cfg.flip_curve /\ ~cfg.flip_taper /\ cfg.flip_twist
    /\ cfg.orient_axis = "Z" /\ ~cfg.separate_scale
    /\ Len(In.taper_verts) = 3
    /\ Len(stations) = 4
    /\ stations[1].t_for_curve = 3 /\ stations[4].t_for_curve = 0
    /\ stations[1].t_for_taper = 0 /\ stations[4].t_for_taper = 3
    /\ stations[1].t_for_twist = 3
    /\ stations[1].taper_value[1] = 9 /\ stations[4].taper_value[1] = 3

\* ---- C14 ----
\* The corners (f, c) of a list of faces.
Corners(faces) ==
    UNION { { << f, c >> : c \in 1..Len(faces[f]) } : f \in 1..Len(faces) }
\* Every face index names an input vertex by its position 0..len-1.
WellFormed(faces, nv) ==
    \A k \in Corners(faces) : faces[k[1]][k[2]] \in 0..(nv - 1)
\* Input vertex i is selected: no mask selects all, a short mask is continued
\* by its last flag.
Selected(i) ==
    IF Len(args.mask) = 0 THEN TRUE
    ELSE IF i + 1 <= Len(args.mask) THEN args.mask[i + 1]
    ELSE args.mask[Len(args.mask)]
\* The output vertices that copy input vertex i; the corners that use it.
CopiesOf(i) == { v \in 1..Len(ret.vi) : ret.vi[v] = i }
UsesOf(i) == { k \in Corners(args.faces) : args.faces[k[1]][k[2]] = i }
\* split_by_vertices has returned the split of a well-formed mesh.
C14_Case ==
    /\ spc = "done" /\ args.split_type = "VERTS" /\ Len(args.vertices) > 0
    /\ WellFormed(args.faces, Len(args.vertices))

\* C14: split_by_vertices returns one face per input face with as many
\* corners; old_v_indexes names for every output vertex the input vertex it
\* copies, and every output corner maps back to the input vertex of the same
\* input corner; a selected vertex has one copy per corner using it, no copy
\* being used by two corners; an unselected vertex used by a face has exactly
\* one copy; old_f_indexes is 0..len(faces)-1.
C14_SplitByVertices ==
    C14_Case =>
        /\ Len(ret.fs) = Len(args.faces)
        /\ \A f \in 1..Len(args.faces) : Len(ret.fs[f]) = Len(args.faces[f])
        /\ Len(ret.vi) = Len(ret.vs)
        /\ \A v \in 1..Len(ret.vs) :
              /\ ret.vi[v] \in 0..(Len(args.vertices) - 1)
              /\ ret.vs[v] = args.vertices[ret.vi[v] + 1]
        /\ \A k \in Corners(args.faces) :
              /\ ret.fs[k[1]][k[2]] \in 0..(Len(ret.vs) - 1)
              /\ ret.vi[ret.fs[k[1]][k[2]] + 1] = args.faces[k[1]][k[2]]
        /\ \A i \in 0..(Len(args.vertices) - 1) :
              IF Selected(i)
              THEN /\ Cardinality(CopiesOf(i)) = Cardinality(UsesOf(i))
                   /\ \A k \in UsesOf(i) : \A l \in Corners(args.faces) :
                         k # l => ret.fs[k[1]][k[2]] # ret.fs[l[1]][l[2]]
              ELSE /\ UsesOf(i) # {} => Cardinality(CopiesOf(i)) = 1
                   /\ UsesOf(i) = {} => CopiesOf(i) = {}
                   /\ \A k \in UsesOf(i) : \A l \in UsesOf(i) :
                         ret.fs[k[1]][k[2]] = ret.fs[l[1]][l[2]]
        /\ ret.fi = [x \in 1..Len(args.faces) |-> x - 1]

\* Two triangles on the edge 0-2 with vertex 0 alone selected: vertex 0 is
\* copied for each triangle, vertex 2 once for both.
C14_Witness ==
    /\ C14_Case
    /\ Len(args.vertices) = 4
    /\ args.faces = << << 0, 1, 2 >>, << 0, 2, 3 >> >>
    /\ args.mask = << TRUE, FALSE, FALSE, FALSE >>
    /\ ret.fs = << << 0, 1, 2 >>, << 3, 2, 4 >> >>
    /\ ret.vi = << 0, 1, 2, 0, 3 >>
    /\ ret.fi = << 0, 1 >>

====
